---- MODULE Spec2Model ----
(***************************************************************************)
(* Track reconstruction and proximity engine of windborne-firecross:       *)
(*   src/src/app/lib/geo.ts             haversineKm, dedupeAndSort         *)
(*   src/src/app/api/balloons/route.ts  extractHourPoints, linkTracks, GET *)
(*   src/unnamed/part_001               insights route GET (proximity)     *)
(*   src/unnamed/part_002               splitByDatelineAndHops (page.tsx)  *)
(*                                                                         *)
(* Numbers.  A JavaScript number is a record [k, v]: k = "fin" with the    *)
(* value v, or k in {"inf", "ninf", "nan"} (v = 0).  Finite values are     *)
(* fixed-point integers: timestamps in seconds, latitudes and longitudes   *)
(* in microdegrees (1e-6 degree), distances in metres.  TLC integers are   *)
(* 32 bit, so every product below is arranged to stay under 2^31.          *)
(* The optional alt field of a point is carried along by the code and read *)
(* by none of the modelled operations; it is left out.                     *)
(***************************************************************************)
EXTENDS Integers, Sequences, FiniteSets, TLC

VARIABLES
    \* linkTracks (route.ts:90-159)
    hourly,      \* the argument: hourly[h+1] is the list of hour index h
    h,           \* loop variable of the for at :97 (JS index, counts down)
    i,           \* loop variable of the for at :112
    tracks,      \* const tracks (:94)
    nextId,      \* let nextId (:93)
    usedTrack,   \* usedTrack (:109)
    usedPoint,   \* usedPoint (:110)
    lpc,         \* position inside linkTracks
    linked,      \* the value linkTracks returns (:158)
    \* dedupeAndSort applied once and twice (geo.ts:14-26)
    dIn, dOnce, dTwice, dpc,
    \* balloons route GET (route.ts:162-184)
    net,         \* net[idx]: what the fetch of hour idx ended with, or pending
    order,       \* hour indices in the order their tasks settled
    gHourly,     \* const hourly (:173)
    response,    \* what GET answers
    gpc,         \* position inside GET
    \* insights route GET (part_001:63-97)
    balloons,    \* what getJSON gave for /api/balloons (:67)
    fires,       \* what getJSON gave for /api/fires (:70)
    stats,       \* const stats (:77)
    received,    \* the stats as the caller reads them from the JSON body
    ipc,         \* position inside the insights GET
    \* splitByDatelineAndHops (part_002:50-78)
    sPts,        \* pts
    sCutoff,     \* cutoffTs
    sSegs,       \* the value returned
    spc,         \* position
    \* extractHourPoints inside the forEach callback of GET (route.ts:34-87, :174-180)
    ePayload,    \* r.value: the parsed payload of one hour
    eIdx,        \* idx: the hour index
    eOut,        \* hourly[idx] after the callback
    epc          \* position

linkVars == <<hourly, h, i, tracks, nextId, usedTrack, usedPoint, lpc, linked>>
dedupVars == <<dIn, dOnce, dTwice, dpc>>
getVars == <<net, order, gHourly, response, gpc>>
proxVars == <<balloons, fires, stats, received, ipc>>
segVars == <<sPts, sCutoff, sSegs, spc>>
extractVars == <<ePayload, eIdx, eOut, epc>>
vars == <<linkVars, dedupVars, getVars, proxVars, segVars, extractVars>>

(***************************************************************************)
(* JavaScript number arithmetic (IEEE 754 special values).                 *)
(***************************************************************************)
Fin(n) == [k |-> "fin", v |-> n]
PosInf == [k |-> "inf", v |-> 0]
NegInf == [k |-> "ninf", v |-> 0]
NaN == [k |-> "nan", v |-> 0]

\* isFinite(x)
IsFinite(x) == x.k = "fin"

\* a - b
JsSub(a, b) ==
    IF a.k = "nan" \/ b.k = "nan" THEN NaN
    ELSE IF a.k = "fin" /\ b.k = "fin" THEN Fin(a.v - b.v)
    ELSE IF a.k = "fin" THEN (IF b.k = "inf" THEN NegInf ELSE PosInf)
    ELSE IF b.k = "fin" THEN a
    ELSE IF a.k = b.k THEN NaN
    ELSE a

\* rank of a non-NaN number on the extended real line
JsRank(a) == IF a.k = "ninf" THEN -1 ELSE IF a.k = "inf" THEN 1 ELSE 0

\* a < b (false when either side is NaN)
JsLt(a, b) ==
    /\ a.k # "nan"
    /\ b.k # "nan"
    /\ \/ JsRank(a) < JsRank(b)
       \/ a.k = "fin" /\ b.k = "fin" /\ a.v < b.v

\* a > b
JsGt(a, b) == JsLt(b, a)

\* a <= b (false when either side is NaN)
JsLe(a, b) ==
    /\ a.k # "nan"
    /\ b.k # "nan"
    /\ ~JsLt(b, a)

Abs(n) == IF n < 0 THEN -n ELSE n

(***************************************************************************)
(* geo.ts: haversineKm.  The model places every point on the equator       *)
(* (lat = 0), where x = sin^2(dLon/2) and 2*R*asin(sqrt(x)) is R times the *)
(* shorter arc between the two longitudes: |dLon| up to 180 degrees, and   *)
(* 360 - |dLon| beyond.  The result is in metres (the code's km times      *)
(* 1000), truncated.  A non-finite coordinate makes every term NaN.        *)
(***************************************************************************)
\* metres per degree of arc: R * 1000 * pi / 180 with R = 6371 km (geo.ts:5)
MetresPerDegree == 111195

MicroPerDegree == 1000 * 1000

\* arc of w microdegrees in metres, split so that no product exceeds 2^31
ArcMetres(w) ==
    LET deg == w \div MicroPerDegree
        rem == w % MicroPerDegree
        milli == rem \div 1000
        micro == rem % 1000
    IN  deg * MetresPerDegree
        + (milli * MetresPerDegree + (micro * MetresPerDegree) \div 1000) \div 1000

HaversineKm(a, b) ==
    IF ~(IsFinite(a.lat) /\ IsFinite(a.lon) /\ IsFinite(b.lat) /\ IsFinite(b.lon))
    THEN NaN
    ELSE LET d == Abs(b.lon.v - a.lon.v)
             w == IF d > 180 * MicroPerDegree THEN 360 * MicroPerDegree - d ELSE d
         IN  Fin(ArcMetres(w))

(***************************************************************************)
(* geo.ts: dedupeAndSort.                                                  *)
(***************************************************************************)
\* Number.prototype.toFixed(5) of a coordinate: the sign is printed whenever
\* x < 0, also when the digits round to zero ("-0.00000"); the digits are the
\* magnitude rounded to 1e-5 degree, i.e. to 10 microdegrees.  Non-finite
\* values print as their names.  (Inputs are kept off exact ties, where the
\* double nearest to the decimal decides the direction.)
ToFixed5(x) ==
    IF IsFinite(x)
    THEN [txt |-> "digits", neg |-> x.v < 0, n |-> (Abs(x.v) + 5) \div 10]
    ELSE [txt |-> x.k, neg |-> FALSE, n |-> 0]

\* the template string `${p.id}|${p.ts}|${p.lat.toFixed(5)}|${p.lon.toFixed(5)}`
DedupeKey(p) == <<p.id, p.ts, ToFixed5(p.lat), ToFixed5(p.lon)>>

\* KeepPoint without the isFinite tests
KeepPointAnyNumber(seen, p) == DedupeKey(p) \notin seen

\* the test of geo.ts:19
KeepPoint(seen, p) ==
    /\ DedupeKey(p) \notin seen
    /\ IsFinite(p.lat)
    /\ IsFinite(p.lon)
    /\ IsFinite(p.ts)

\* the loop of geo.ts:17-23: [seen, out] after the first n points
RECURSIVE DedupeLoop(_, _)
DedupeLoop(points, n) ==
    IF n = 0 THEN [seen |-> {}, out |-> <<>>]
    ELSE LET prev == DedupeLoop(points, n - 1)
             p == points[n]
         IN  IF KeepPoint(prev.seen, p)
             THEN [seen |-> prev.seen \cup {DedupeKey(p)}, out |-> Append(prev.out, p)]
             ELSE prev

\* the comparator (a, b) => a.ts - b.ts as sort reads it: > 0 puts a after b,
\* NaN counts as 0
TsCompare(a, b) ==
    LET d == JsSub(a.ts, b.ts)
    IN  IF d.k = "inf" THEN 1
        ELSE IF d.k = "ninf" THEN -1
        ELSE IF d.k = "nan" THEN 0
        ELSE IF d.v > 0 THEN 1 ELSE IF d.v < 0 THEN -1 ELSE 0

\* p inserted behind every element that does not compare greater (stable)
RECURSIVE InsertByTs(_, _)
InsertByTs(s, p) ==
    IF s = <<>> THEN <<p>>
    ELSE IF TsCompare(s[Len(s)], p) > 0
         THEN Append(InsertByTs(SubSeq(s, 1, Len(s) - 1), p), s[Len(s)])
         ELSE Append(s, p)

\* Array.prototype.sort with the comparator above (a stable sort)
RECURSIVE SortByTs(_)
SortByTs(s) ==
    IF s = <<>> THEN <<>>
    ELSE InsertByTs(SortByTs(SubSeq(s, 1, Len(s) - 1)), s[Len(s)])

DedupeAndSort(points) == SortByTs(DedupeLoop(points, Len(points)).out)

(***************************************************************************)
(* route.ts: linkTracks.  A track id `T${n}` is modelled by the number n.  *)
(* Sequences are 1-based: tracks[t + 1] is the code's tracks[t], and a     *)
(* best index of 0 is the code's bestIdx = -1.                             *)
(***************************************************************************)
MAX_LINK_KM_PER_H == 200

\* { ...p, id }
WithId(p, id) == [id |-> id, ts |-> p.ts, lat |-> p.lat, lon |-> p.lon]

\* TimeGateOk with both ends of the window excluded
TimeGateOkExclusive(dt) == ~(JsLe(dt, Fin(1800)) \/ JsLe(Fin(5400), dt))

\* TimeGateOk with a window that tolerates one missing hour
TimeGateOkTwoHours(dt) == ~(JsLt(dt, Fin(1800)) \/ JsGt(dt, Fin(5400 + 3600)))

\* the negation of `dt < 1800 || dt > 5400` (:126)
TimeGateOk(dt) == ~(JsLt(dt, Fin(1800)) \/ JsGt(dt, Fin(5400)))

\* `km > allowed` with allowed = MAX_LINK_KM_PER_H * (dt / 3600) (:131-133).
\* km is in metres here, so for finite dt the test is
\* km * 3600 > MAX_LINK_KM_PER_H * 1000 * dt; both sides are divided by 400 to
\* stay within 32 bits.  allowed is NaN, +Infinity or -Infinity with dt.
OverAllowed(km, dt) ==
    IF km.k = "nan" \/ dt.k = "nan" THEN FALSE
    ELSE IF dt.k = "inf" THEN FALSE
    ELSE IF dt.k = "ninf" THEN TRUE
    ELSE km.v * 9 > ((MAX_LINK_KM_PER_H * 1000) \div 400) * dt.v

LastPoint(tr) == tr.points[Len(tr.points)]

\* one iteration of the for at :118-139 does not `continue`
PassesGates(tr, p) ==
    LET last == LastPoint(tr)
        dt == JsSub(p.ts, last.ts)
    IN  /\ TimeGateOk(dt)
        /\ ~OverAllowed(HaversineKm(last, p), dt)

\* BestLoop with `km <= bestKm`: on a tie the latest track wins
RECURSIVE BestLoopLastOnTie(_, _, _, _)
BestLoopLastOnTie(trks, used, p, n) ==
    IF n = 0 THEN [idx |-> 0, km |-> PosInf]
    ELSE LET prev == BestLoopLastOnTie(trks, used, p, n - 1)
             tr == trks[n]
             km == HaversineKm(LastPoint(tr), p)
         IN  IF tr.id \in used THEN prev
             ELSE IF ~PassesGates(tr, p) THEN prev
             ELSE IF JsLe(km, prev.km) THEN [idx |-> n, km |-> km]
             ELSE prev

\* [idx, km] = (bestIdx, bestKm) after the first n tracks were examined
RECURSIVE BestLoop(_, _, _, _)
BestLoop(trks, used, p, n) ==
    IF n = 0 THEN [idx |-> 0, km |-> PosInf]
    ELSE LET prev == BestLoop(trks, used, p, n - 1)
             tr == trks[n]
             km == HaversineKm(LastPoint(tr), p)
         IN  IF tr.id \in used THEN prev
             ELSE IF ~PassesGates(tr, p) THEN prev
             ELSE IF JsLt(km, prev.km) THEN [idx |-> n, km |-> km]
             ELSE prev

BestIdx(trks, used, p) == BestLoop(trks, used, p, Len(trks)).idx

\* tr.points.push({ ...p, id: tr.id }) on tracks[idx] (:142-143)
PushPoint(trks, idx, p) ==
    [trks EXCEPT ![idx].points = Append(@, WithId(p, trks[idx].id))]

\* StartTracks with nextId read but never advanced
RECURSIVE StartTracksSameId(_, _, _, _, _)
StartTracksSameId(trks, nid, pts, skip, n) ==
    IF n = 0 THEN [tracks |-> trks, nextId |-> nid]
    ELSE LET prev == StartTracksSameId(trks, nid, pts, skip, n - 1)
         IN  IF (n - 1) \in skip THEN prev
             ELSE [tracks |-> Append(prev.tracks,
                                     [id |-> prev.nextId,
                                      points |-> <<WithId(pts[n], prev.nextId)>>]),
                   nextId |-> prev.nextId]

\* the loops at :102-105 and :150-154: every observation of pts whose index
\* (0-based) is not in skip starts a track with the next id.
\* [tracks, nextId] after the first n observations.
RECURSIVE StartTracks(_, _, _, _, _)
StartTracks(trks, nid, pts, skip, n) ==
    IF n = 0 THEN [tracks |-> trks, nextId |-> nid]
    ELSE LET prev == StartTracks(trks, nid, pts, skip, n - 1)
         IN  IF (n - 1) \in skip THEN prev
             ELSE [tracks |-> Append(prev.tracks,
                                     [id |-> prev.nextId,
                                      points |-> <<WithId(pts[n], prev.nextId)>>]),
                   nextId |-> prev.nextId + 1]

\* one iteration of the for at :112-147 for observation index idx (0-based)
\* on m = [tracks, usedTrack, usedPoint]
MatchOne(m, pts, idx) ==
    LET p == pts[idx + 1]
        best == BestIdx(m.tracks, m.usedTrack, p)
    IN  IF best > 0
        THEN [tracks |-> PushPoint(m.tracks, best, p),
              usedTrack |-> m.usedTrack \cup {m.tracks[best].id},
              usedPoint |-> m.usedPoint \cup {idx}]
        ELSE m

\* :157: tr.points = dedupeAndSort(tr.points) for every track
DedupeTracks(trks) ==
    [t \in 1..Len(trks) |-> [trks[t] EXCEPT !.points = DedupeAndSort(@)]]

\* Array.prototype.filter with (t) => t.points.length >= 2 (:158)
RECURSIVE FilterMultiPoint(_)
FilterMultiPoint(trks) ==
    IF Len(trks) = 0 THEN <<>>
    ELSE LET front == FilterMultiPoint(SubSeq(trks, 1, Len(trks) - 1))
             tr == trks[Len(trks)]
         IN  IF Len(tr.points) >= 2 THEN Append(front, tr) ELSE front

\* the whole for at :112-147
RECURSIVE MatchLoop(_, _, _)
MatchLoop(trks, pts, n) ==
    IF n = 0 THEN [tracks |-> trks, usedTrack |-> {}, usedPoint |-> {}]
    ELSE MatchOne(MatchLoop(trks, pts, n - 1), pts, n - 1)

\* one iteration of the for at :97-155 on st = [tracks, nextId]
HourStep(st, pts) ==
    IF pts = <<>> THEN st
    ELSE IF st.tracks = <<>> THEN StartTracks(st.tracks, st.nextId, pts, {}, Len(pts))
    ELSE LET m == MatchLoop(st.tracks, pts, Len(pts))
         IN  StartTracks(m.tracks, st.nextId, pts, m.usedPoint, Len(pts))

\* [tracks, nextId] once the hours Len(hrs)-1 down to Len(hrs)-n are processed
RECURSIVE HoursLoop(_, _)
HoursLoop(hrs, n) ==
    IF n = 0 THEN [tracks |-> <<>>, nextId |-> 1]
    ELSE HourStep(HoursLoop(hrs, n - 1), hrs[Len(hrs) - n + 1])

\* linkTracks as a function of its argument
LinkTracks(hrs) == FilterMultiPoint(DedupeTracks(HoursLoop(hrs, Len(hrs)).tracks))

(***************************************************************************)
(* Bounds and input sets.                                                  *)
(***************************************************************************)
\* hours handed to linkTracks (the route passes 24)
LinkHours == 3
\* observations per hour
MaxPts == 2
\* Math.floor(Date.now() / 1000) of the run
NowTs == 100000
\* points handed to dedupeAndSort
MaxDedupLen == 3

\* toEpochSecondsFromHourIdx (route.ts:17-19)
ToEpochSecondsFromHourIdx(hourIdx) == NowTs - hourIdx * 3600

\* Timestamps an observation of hour index hh can carry: the hour's own
\* (cases A and B of extractHourPoints), a payload timestamp a quarter of an
\* hour off, or a payload timestamp that overflowed to Infinity (case C).
HourTimes(hh) ==
    {Fin(ToEpochSecondsFromHourIdx(hh) + o) : o \in {-900, 0, 900}} \cup {PosInf}

\* longitudes on the equator: 0, 1.5 degrees (167 km) and 20 degrees (2224 km)
LinkLons == {0, 1500000, 20000000}

Obs(ts, lon) == [ts |-> ts, lat |-> Fin(0), lon |-> Fin(lon)]

\* the lists of hour index hh: up to MaxPts observations sharing a timestamp
HourLists(hh) ==
    {<<>>} \cup
    UNION {{[j \in 1..n |-> Obs(ts, lons[j])] : lons \in [1..n -> LinkLons]} :
           ts \in HourTimes(hh), n \in 1..MaxPts}

RECURSIVE HourlyInputs(_)
HourlyInputs(n) ==
    IF n = 0 THEN {<<>>}
    ELSE {Append(front, pts) : front \in HourlyInputs(n - 1), pts \in HourLists(n - 1)}

DedupPoints ==
    {[id |-> id, ts |-> ts, lat |-> c[1], lon |-> c[2]] :
        id \in {1, 2},
        ts \in {Fin(NowTs - 3600), Fin(NowTs), PosInf},
        c \in {<<Fin(-4), Fin(0)>>, <<Fin(4), Fin(0)>>, <<Fin(14), Fin(0)>>,
               <<Fin(4), NaN>>}}

DedupInputs == UNION {[1..n -> DedupPoints] : n \in 0..MaxDedupLen}

(***************************************************************************)
(* route.ts: extractHourPoints.  A parsed payload is                       *)
(*   [k |-> "top", elems |-> <<element, ...>>]    a top-level array        *)
(*   an "obj" element                             a top-level object       *)
(* and an element is [k, items, lat, lon, ts] with k one of                *)
(*   "arr"   an array whose entries are items (scalars)                    *)
(*   "obj"   an object with keys lat, lon, ts (Null: key absent or null)   *)
(*   "null"  the JSON null                                                 *)
(*   "num"   a number                                                      *)
(* A scalar is a number record or Null.                                    *)
(***************************************************************************)
Null == [k |-> "null", v |-> 0]

\* x == null (null or undefined)
IsNullish(x) == x.k = "null"

\* Number(x) of a number or of null
ToNumber(x) == IF x.k = "null" THEN Fin(0) ELSE x

ArrEl(items) == [k |-> "arr", items |-> items, lat |-> Null, lon |-> Null, ts |-> Null]
ObjEl(lat, lon, ts) == [k |-> "obj", items |-> <<>>, lat |-> lat, lon |-> lon, ts |-> ts]
NullEl == [k |-> "null", items |-> <<>>, lat |-> Null, lon |-> Null, ts |-> Null]
NumEl == [k |-> "num", items |-> <<>>, lat |-> Null, lon |-> Null, ts |-> Null]
TopArray(elems) == [k |-> "top", elems |-> elems]

\* toEpochSeconds (route.ts:21-31) of a number or null: null gives null; a
\* number above 1e11 is read as milliseconds, which no finite value of the
\* model reaches; Math.round keeps integers and Infinity as they are
ToEpochSeconds(x) == x

\* x ?? y
Coalesce(x, y) == IF IsNullish(x) THEN y ELSE x

\* case A (:40-48): rows [lat, lon, alt?]
RECURSIVE ExtractRows(_, _, _)
ExtractRows(elems, ts, n) ==
    IF n = 0 THEN <<>>
    ELSE LET prev == ExtractRows(elems, ts, n - 1)
             row == elems[n]
         IN  IF row.k = "arr" /\ Len(row.items) >= 2
             THEN LET lat == ToNumber(row.items[1])
                      lon == ToNumber(row.items[2])
                  IN  IF IsFinite(lat) /\ IsFinite(lon)
                      THEN Append(prev, [ts |-> Fin(ts), lat |-> lat, lon |-> lon])
                      ELSE prev
             ELSE prev

\* case B (:53-62): objects; reading a key of null throws a TypeError, which
\* ends the call ([threw, out])
RECURSIVE ExtractObjects(_, _, _)
ExtractObjects(elems, ts, n) ==
    IF n = 0 THEN [threw |-> FALSE, out |-> <<>>]
    ELSE LET prev == ExtractObjects(elems, ts, n - 1)
             obj == elems[n]
         IN  IF prev.threw THEN prev
             ELSE IF obj.k = "null" THEN [threw |-> TRUE, out |-> <<>>]
             ELSE IF ~IsNullish(obj.lat) /\ ~IsNullish(obj.lon)
                     /\ IsFinite(ToNumber(obj.lat)) /\ IsFinite(ToNumber(obj.lon))
                  THEN [prev EXCEPT !.out = Append(@, [ts |-> Fin(ts),
                                                       lat |-> ToNumber(obj.lat),
                                                       lon |-> ToNumber(obj.lon)])]
                  ELSE prev

\* pushIfValid (:66-77): what it appends for one node
PushIfValid(obj, ts) ==
    IF obj.k # "obj" THEN <<>>
    ELSE LET t == Coalesce(ToEpochSeconds(obj.ts), Fin(ts))
         IN  IF ~IsNullish(obj.lat) /\ ~IsNullish(obj.lon)
                /\ IsFinite(ToNumber(obj.lat)) /\ IsFinite(ToNumber(obj.lon))
             THEN <<[ts |-> t, lat |-> ToNumber(obj.lat), lon |-> ToNumber(obj.lon)]>>
             ELSE <<>>

\* walk (:78-84) over the elements of an array: objects are tried, arrays of
\* scalars, numbers and nulls hold nothing
RECURSIVE WalkElems(_, _, _)
WalkElems(elems, ts, n) ==
    IF n = 0 THEN <<>>
    ELSE WalkElems(elems, ts, n - 1) \o PushIfValid(elems[n], ts)

\* typeof x === "object"
TypeofObject(x) == x.k \in {"arr", "obj", "null"}

\* extractHourPoints: [threw, out]
ExtractHourPoints(payload, hourIdx) ==
    LET ts == ToEpochSecondsFromHourIdx(hourIdx)
    IN  IF payload.k = "top" /\ Len(payload.elems) > 0 /\ payload.elems[1].k = "arr"
        THEN [threw |-> FALSE,
              out |-> ExtractRows(payload.elems, ts, Len(payload.elems))]
        ELSE IF payload.k = "top" /\ Len(payload.elems) > 0
                /\ TypeofObject(payload.elems[1])
        THEN ExtractObjects(payload.elems, ts, Len(payload.elems))
        ELSE IF payload.k = "top"
        THEN [threw |-> FALSE, out |-> WalkElems(payload.elems, ts, Len(payload.elems))]
        ELSE [threw |-> FALSE, out |-> PushIfValid(payload, ts)]


(***************************************************************************)
(* linkTracks, one loop iteration at a time.                               *)
(***************************************************************************)
LinkIdle ==
    /\ hourly = <<>>
    /\ h = -1
    /\ i = 0
    /\ tracks = <<>>
    /\ nextId = 1
    /\ usedTrack = {}
    /\ usedPoint = {}
    /\ lpc = "idle"
    /\ linked = <<>>

DedupIdle ==
    /\ dIn = <<>>
    /\ dOnce = <<>>
    /\ dTwice = <<>>
    /\ dpc = "idle"

GetIdle ==
    /\ net = <<>>
    /\ order = <<>>
    /\ gHourly = <<>>
    /\ response = [status |-> "none", tracks |-> <<>>]
    /\ gpc = "idle"

ProxIdle ==
    /\ balloons = [ok |-> FALSE, tracks |-> <<>>]
    /\ fires = [ok |-> FALSE, fires |-> <<>>]
    /\ stats = <<>>
    /\ received = <<>>
    /\ ipc = "idle"

SegIdle ==
    /\ sPts = <<>>
    /\ sCutoff = 0
    /\ sSegs = <<>>
    /\ spc = "idle"

ExtractIdle ==
    /\ ePayload = TopArray(<<>>)
    /\ eIdx = 0
    /\ eOut = <<>>
    /\ epc = "idle"

\* entry of linkTracks (:93-97)
LinkInit ==
    /\ hourly \in HourlyInputs(LinkHours)
    /\ h = Len(hourly) - 1
    /\ i = 0
    /\ tracks = <<>>
    /\ nextId = 1
    /\ usedTrack = {}
    /\ usedPoint = {}
    /\ lpc = "hour"
    /\ linked = <<>>
    /\ DedupIdle
    /\ GetIdle
    /\ ProxIdle
    /\ SegIdle
    /\ ExtractIdle

\* :99 `if (!pts.length) continue`
LinkSkipHour ==
    /\ lpc = "hour"
    /\ h >= 0
    /\ hourly[h + 1] = <<>>
    /\ h' = h - 1
    /\ UNCHANGED <<hourly, i, tracks, nextId, usedTrack, usedPoint, lpc, linked>>
    /\ UNCHANGED <<dedupVars, getVars, proxVars, segVars, extractVars>>

\* :101-107 the first non-empty hour seeds one track per observation
LinkSeedHour ==
    /\ lpc = "hour"
    /\ h >= 0
    /\ hourly[h + 1] # <<>>
    /\ tracks = <<>>
    /\ LET st == StartTracks(tracks, nextId, hourly[h + 1], {}, Len(hourly[h + 1]))
       IN  /\ tracks' = st.tracks
           /\ nextId' = st.nextId
    /\ h' = h - 1
    /\ UNCHANGED <<hourly, i, usedTrack, usedPoint, lpc, linked>>
    /\ UNCHANGED <<dedupVars, getVars, proxVars, segVars, extractVars>>

\* :109-112 a later hour: fresh usedTrack and usedPoint, i = 0
LinkBeginHour ==
    /\ lpc = "hour"
    /\ h >= 0
    /\ hourly[h + 1] # <<>>
    /\ tracks # <<>>
    /\ usedTrack' = {}
    /\ usedPoint' = {}
    /\ i' = 0
    /\ lpc' = "match"
    /\ UNCHANGED <<hourly, h, tracks, nextId, linked>>
    /\ UNCHANGED <<dedupVars, getVars, proxVars, segVars, extractVars>>

\* :112-147 one observation of the hour is matched
LinkMatchObs ==
    /\ lpc = "match"
    /\ i < Len(hourly[h + 1])
    /\ LET m == MatchOne([tracks |-> tracks, usedTrack |-> usedTrack,
                          usedPoint |-> usedPoint], hourly[h + 1], i)
       IN  /\ tracks' = m.tracks
           /\ usedTrack' = m.usedTrack
           /\ usedPoint' = m.usedPoint
    /\ i' = i + 1
    /\ UNCHANGED <<hourly, h, nextId, lpc, linked>>
    /\ UNCHANGED <<dedupVars, getVars, proxVars, segVars, extractVars>>

\* :149-155 leftover observations start new tracks; next hour
LinkLeftover ==
    /\ lpc = "match"
    /\ i = Len(hourly[h + 1])
    /\ LET st == StartTracks(tracks, nextId, hourly[h + 1], usedPoint, Len(hourly[h + 1]))
       IN  /\ tracks' = st.tracks
           /\ nextId' = st.nextId
    /\ h' = h - 1
    /\ lpc' = "hour"
    /\ UNCHANGED <<hourly, i, usedTrack, usedPoint, linked>>
    /\ UNCHANGED <<dedupVars, getVars, proxVars, segVars, extractVars>>

\* :157-158 after the last hour
LinkReturn ==
    /\ lpc = "hour"
    /\ h < 0
    /\ tracks' = DedupeTracks(tracks)
    /\ linked' = FilterMultiPoint(DedupeTracks(tracks))
    /\ lpc' = "done"
    /\ UNCHANGED <<hourly, h, i, nextId, usedTrack, usedPoint>>
    /\ UNCHANGED <<dedupVars, getVars, proxVars, segVars, extractVars>>

LinkNext ==
    \/ LinkSkipHour
    \/ LinkSeedHour
    \/ LinkBeginHour
    \/ LinkMatchObs
    \/ LinkLeftover
    \/ LinkReturn

SpecLink == LinkInit /\ [][LinkNext]_vars

(***************************************************************************)
(* dedupeAndSort applied to a list, and again to its own output.           *)
(***************************************************************************)
DedupInit ==
    /\ dIn \in DedupInputs
    /\ dOnce = <<>>
    /\ dTwice = <<>>
    /\ dpc = "in"
    /\ LinkIdle
    /\ GetIdle
    /\ ProxIdle
    /\ SegIdle
    /\ ExtractIdle

DedupFirst ==
    /\ dpc = "in"
    /\ dOnce' = DedupeAndSort(dIn)
    /\ dpc' = "once"
    /\ UNCHANGED <<dIn, dTwice>>
    /\ UNCHANGED <<linkVars, getVars, proxVars, segVars, extractVars>>

DedupSecond ==
    /\ dpc = "once"
    /\ dTwice' = DedupeAndSort(dOnce)
    /\ dpc' = "twice"
    /\ UNCHANGED <<dIn, dOnce>>
    /\ UNCHANGED <<linkVars, getVars, proxVars, segVars, extractVars>>

DedupNext == DedupFirst \/ DedupSecond

SpecDedup == DedupInit /\ [][DedupNext]_vars

\* linkTracks stepped agrees with linkTracks as a function
LinkStepsAgree == lpc = "done" => linked = LinkTracks(hourly)

(***************************************************************************)
(* Properties of linkTracks (SpecLink).                                    *)
(***************************************************************************)
StripId(p) == [ts |-> p.ts, lat |-> p.lat, lon |-> p.lon]

\* distance in metres between two finite points, as a plain integer
Metres(a, b) == HaversineKm(a, b).v

\* a hop from a to b that the claims call linkable: finite timestamps,
\* 1800 <= dt <= 5400 and km <= 200 * dt / 3600 (metres * 9 <= 500 * dt)
LinkableHop(a, b) ==
    /\ IsFinite(a.ts)
    /\ IsFinite(b.ts)
    /\ b.ts.v - a.ts.v >= 1800
    /\ b.ts.v - a.ts.v <= 5400
    /\ Metres(a, b) * 9 <= 500 * (b.ts.v - a.ts.v)

NonEmptyHours(hrs) == {x \in 1..Len(hrs) : hrs[x] # <<>>}

\* exactly one observation in each of k >= 2 consecutive hours, none in the
\* others, every hour-to-hour hop linkable
SingleObjectInput(hrs) ==
    LET ne == NonEmptyHours(hrs)
    IN  /\ Cardinality(ne) >= 2
        /\ \A x \in ne : Len(hrs[x]) = 1
        /\ \A x \in ne, y \in ne : \A z \in x..y : z \in ne
        /\ \A x \in ne : (x + 1) \in ne => LinkableHop(hrs[x + 1][1], hrs[x][1])

\* C1: for hourly input with exactly one observation in each of k >= 2
\* consecutive hours and every hop inside both gates, linkTracks returns
\* exactly one track, holding all k observations oldest first, with strictly
\* increasing timestamps.
C1_SingleObjectOneTrack ==
    (lpc = "done" /\ SingleObjectInput(hourly)) =>
        LET ne == NonEmptyHours(hourly)
            k == Cardinality(ne)
            hi == CHOOSE x \in ne : \A y \in ne : y <= x
        IN  /\ Len(linked) = 1
            /\ Len(linked[1].points) = k
            /\ \A j \in 1..k : StripId(linked[1].points[j]) = hourly[hi - j + 1][1]
            /\ \A j \in 1..(k - 1) :
                   linked[1].points[j].ts.v < linked[1].points[j + 1].ts.v

\* a run over LinkHours single-observation hours with a hop at each end of the
\* time window has returned
C1_Witness ==
    /\ lpc = "done"
    /\ SingleObjectInput(hourly)
    /\ Cardinality(NonEmptyHours(hourly)) = LinkHours
    /\ \E x \in 1..(LinkHours - 1) : hourly[x][1].ts.v - hourly[x + 1][1].ts.v = 1800
    /\ \E x \in 1..(LinkHours - 1) : hourly[x][1].ts.v - hourly[x + 1][1].ts.v = 5400
    /\ Len(linked) = 1

AllTracks == {tracks[t] : t \in 1..Len(tracks)} \cup {linked[t] : t \in 1..Len(linked)}

\* C2: at every step of linkTracks and in its output, any two consecutive
\* points of a track satisfy both link gates: dt in [1800, 5400] seconds and
\* distance at most 200 * (dt / 3600) km.
C2_ConsecutivePointsPassGates ==
    \A tr \in AllTracks : \A j \in 1..(Len(tr.points) - 1) :
        LinkableHop(tr.points[j], tr.points[j + 1])

\* every timestamp of the input is finite
FiniteInput(hrs) == \A x \in 1..Len(hrs) : \A j \in 1..Len(hrs[x]) : IsFinite(hrs[x][j].ts)

\* the part of C2 the code keeps: with finite timestamps throughout, every
\* pair of consecutive points passes both gates
C2_FiniteInputPassesGates == FiniteInput(hourly) => C2_ConsecutivePointsPassGates

\* every timestamp is the one toEpochSecondsFromHourIdx gives its hour
HourStamped(hrs) ==
    \A x \in 1..Len(hrs) : \A j \in 1..Len(hrs[x]) :
        hrs[x][j].ts = Fin(ToEpochSecondsFromHourIdx(x - 1))

\* hour indices g (0-based) that are a gap: empty, with observations in the
\* hour before (g + 1) and in the hour after (g - 1)
GapHours(hrs) ==
    {g \in 1..(Len(hrs) - 2) :
        /\ hrs[g + 1] = <<>>
        /\ hrs[g + 2] # <<>>
        /\ hrs[g] # <<>>}

\* C3: with timestamps derived from hour indices, a gap hour is never
\* bridged: no track holds a point from before the gap and one from after
\* it, and once the hour after the gap is processed each of its observations
\* is the first point of a track of its own, whose id no pre-gap track has.
C3_GapNeverBridged ==
    HourStamped(hourly) =>
        \A g \in GapHours(hourly) :
            LET before == ToEpochSecondsFromHourIdx(g + 1)
                after == ToEpochSecondsFromHourIdx(g - 1)
                old == {tr \in AllTracks : \E j \in 1..Len(tr.points) :
                                               tr.points[j].ts.v <= before}
                new == {t \in 1..Len(tracks) :
                           /\ Len(tracks[t].points) >= 1
                           /\ tracks[t].points[1].ts.v = after}
            IN  /\ \A tr \in old : \A j \in 1..Len(tr.points) :
                       tr.points[j].ts.v <= before
                /\ (lpc = "hour" /\ h < g - 1) =>
                       /\ Cardinality(new) = Len(hourly[g])
                       /\ \A t \in new : \A tr \in old : tracks[t].id # tr.id

\* the hour after a gap has been processed: the pre-gap track stands alone
\* and the post-gap observation, at the same place, heads another track
C3_Witness ==
    /\ HourStamped(hourly)
    /\ GapHours(hourly) = {1}
    /\ lpc = "hour"
    /\ h < 0
    /\ Len(hourly[1]) = 1
    /\ Len(hourly[3]) = 1
    /\ hourly[1][1].lon = hourly[3][1].lon
    /\ Len(tracks) = 2
    /\ tracks[1].id # tracks[2].id

\* number of indices of s holding x
Count(s, x) == Cardinality({j \in 1..Len(s) : s[j] = x})

\* the observations linkTracks has placed so far: the processed hours, and
\* inside an hour the observations already matched
PlacedCount(o) ==
    LET done == {x \in 1..Len(hourly) : x - 1 > h}
        whole == [x \in done |-> Count(hourly[x], o)]
        RECURSIVE Sum(_)
        Sum(S) == IF S = {} THEN 0
                  ELSE LET x == CHOOSE y \in S : TRUE IN whole[x] + Sum(S \ {x})
        here == IF lpc = "match"
                THEN Cardinality({j \in usedPoint : hourly[h + 1][j + 1] = o})
                ELSE 0
    IN  Sum(done) + here

\* occurrences of observation o among the points of all tracks
HeldCount(o) ==
    LET RECURSIVE Sum(_)
        Sum(n) == IF n = 0 THEN 0
                  ELSE Cardinality({j \in 1..Len(tracks[n].points) :
                                       StripId(tracks[n].points[j]) = o}) + Sum(n - 1)
    IN  Sum(Len(tracks))

AllObs == UNION {{hourly[x][j] : j \in 1..Len(hourly[x])} : x \in 1..Len(hourly)}

\* C4: while linkTracks runs, every observation placed so far is held by
\* exactly one track, no two tracks share an id, every id in use was handed
\* out by nextId, and every point carries the id of the track holding it.
C4_OneTrackPerObservation ==
    lpc \in {"hour", "match"} =>
        /\ \A o \in AllObs : HeldCount(o) = PlacedCount(o)
        /\ \A a \in 1..Len(tracks), b \in 1..Len(tracks) :
               tracks[a].id = tracks[b].id => a = b
        /\ \A t \in 1..Len(tracks) :
               /\ tracks[t].id < nextId
               /\ \A j \in 1..Len(tracks[t].points) :
                      tracks[t].points[j].id = tracks[t].id

\* all hours processed, some observation was matched to an open track and
\* some started a track of their own after the seeding hour
C4_Witness ==
    /\ lpc = "hour"
    /\ h < 0
    /\ Len(tracks) >= 3
    /\ \E t \in 1..Len(tracks) : Len(tracks[t].points) >= 2
    /\ nextId = Len(tracks) + 1

\* C5: every track linkTracks returns has at least 2 points, strictly
\* ascending finite timestamps and finite coordinates.
C5_ReturnedTracksWellFormed ==
    lpc = "done" =>
        \A t \in 1..Len(linked) :
            LET pts == linked[t].points
            IN  /\ Len(pts) >= 2
                /\ \A j \in 1..Len(pts) :
                       IsFinite(pts[j].ts) /\ IsFinite(pts[j].lat) /\ IsFinite(pts[j].lon)
                /\ \A j \in 1..(Len(pts) - 1) : pts[j].ts.v < pts[j + 1].ts.v

\* a run returned a track, dropped a single-observation track, and dropped a
\* track whose points all had a non-finite timestamp
C5_Witness ==
    /\ lpc = "done"
    /\ Len(linked) >= 1
    /\ \E t \in 1..Len(tracks) : Len(tracks[t].points) = 1
    /\ \E t \in 1..Len(tracks) : Len(tracks[t].points) = 0

(***************************************************************************)
(* route.ts: GET.  The 24 tasks of :164-168 are GetHours tasks here.  Each *)
(* is fetchText(url).then(safeParseJSON).catch(() => null); what the       *)
(* network does to a fetch is one of                                       *)
(*   "timeout"  the 8 s timer aborts it and fetch rejects (:8-11)          *)
(*   "http"     res.ok is false and fetchText throws (:12)                 *)
(*   "body"     res.text() gives a text (:13)                              *)
(* A text is GarbageText (no stage of safeParseJSON parses it: null) or    *)
(* JsonText(v), which JSON.parse reads as v at the first stage.            *)
(***************************************************************************)
GetHours == 3

Pending == [k |-> "pending", text |-> [k |-> "none", value |-> NullEl]]
TimedOut == [k |-> "timeout", text |-> [k |-> "none", value |-> NullEl]]
HttpError == [k |-> "http", text |-> [k |-> "none", value |-> NullEl]]
GarbageText == [k |-> "garbage", value |-> NullEl]
JsonText(v) == [k |-> "json", value |-> v]
Body(text) == [k |-> "body", text |-> text]

Row(lat, lon) == ArrEl(<<Fin(lat), Fin(lon)>>)

\* the texts a fetch can deliver
GetTexts ==
    {GarbageText,
     JsonText(TopArray(<<Row(0, 0)>>)),
     JsonText(TopArray(<<Row(0, 1500000), Row(0, 20000000)>>)),
     JsonText(TopArray(<<ObjEl(Fin(0), Fin(1500000), Null), NullEl>>)),
     JsonText(TopArray(<<NumEl, ObjEl(Fin(0), Fin(0), Null)>>)),
     JsonText(ObjEl(Fin(0), Fin(0), PosInf))}

\* safeParseJSON (safe-json.ts:11-43): the first stage that parses, else null
SafeParseJSON(text) == IF text.k = "json" THEN text.value ELSE NullEl

\* the value the task of one hour fulfils with (:167): the parsed text, or
\* null from the catch when fetchText rejected
TaskValue(outcome) ==
    IF outcome.k = "body" THEN SafeParseJSON(outcome.text) ELSE NullEl

\* AllSettled with the results in the order the tasks settled
AllSettledArrival(n, ord) ==
    [j \in 1..Len(n) |-> [status |-> "fulfilled", value |-> TaskValue(n[ord[j] + 1])]]

\* Promise.allSettled(tasks) (:170): one result per task, in task order
AllSettled(n, ord) ==
    [j \in 1..Len(n) |-> [status |-> "fulfilled", value |-> TaskValue(n[j])]]

\* a value is truthy: every array and object is, null is not
Truthy(v) == v.k # "null"

\* CollectHour without the try/catch of :176
CollectHourUncaught(r, idx) ==
    IF r.status = "fulfilled" /\ Truthy(r.value)
    THEN LET e == ExtractHourPoints(r.value, idx)
         IN  [threw |-> e.threw, pts |-> e.out]
    ELSE [threw |-> FALSE, pts |-> <<>>]

\* the callback of results.forEach (:174-180) for index idx: what it stores
\* in hourly[idx], and whether an exception left it
CollectHour(r, idx) ==
    IF r.status = "fulfilled" /\ Truthy(r.value)
    THEN LET e == ExtractHourPoints(r.value, idx)
         IN  [threw |-> FALSE, pts |-> IF e.threw THEN <<>> ELSE e.out]
    ELSE [threw |-> FALSE, pts |-> <<>>]

GetInit ==
    /\ net = [j \in 1..GetHours |-> Pending]
    /\ order = <<>>
    /\ gHourly = <<>>
    /\ response = [status |-> "none", tracks |-> <<>>]
    /\ gpc = "fetching"
    /\ LinkIdle
    /\ DedupIdle
    /\ ProxIdle
    /\ SegIdle
    /\ ExtractIdle

\* the fetch of hour idx is aborted by its timer; the task settles with null
FetchTimeout(idx) ==
    /\ gpc = "fetching"
    /\ net[idx + 1].k = "pending"
    /\ net' = [net EXCEPT ![idx + 1] = TimedOut]
    /\ order' = Append(order, idx)
    /\ UNCHANGED <<gHourly, response, gpc>>
    /\ UNCHANGED <<linkVars, dedupVars, proxVars, segVars, extractVars>>

\* the fetch of hour idx is answered with a non-OK status
FetchHttpError(idx) ==
    /\ gpc = "fetching"
    /\ net[idx + 1].k = "pending"
    /\ net' = [net EXCEPT ![idx + 1] = HttpError]
    /\ order' = Append(order, idx)
    /\ UNCHANGED <<gHourly, response, gpc>>
    /\ UNCHANGED <<linkVars, dedupVars, proxVars, segVars, extractVars>>

\* the fetch of hour idx delivers a text
FetchBody(idx, text) ==
    /\ gpc = "fetching"
    /\ net[idx + 1].k = "pending"
    /\ net' = [net EXCEPT ![idx + 1] = Body(text)]
    /\ order' = Append(order, idx)
    /\ UNCHANGED <<gHourly, response, gpc>>
    /\ UNCHANGED <<linkVars, dedupVars, proxVars, segVars, extractVars>>

\* :170-183 once every task has settled
GetRespond ==
    /\ gpc = "fetching"
    /\ \A j \in 1..GetHours : net[j].k # "pending"
    /\ LET results == AllSettled(net, order)
           got == [j \in 1..GetHours |-> CollectHour(results[j], j - 1)]
           hrs == [j \in 1..GetHours |-> got[j].pts]
       IN  /\ gHourly' = hrs
           /\ response' = IF \E j \in 1..GetHours : got[j].threw
                          THEN [status |-> "error", tracks |-> <<>>]
                          ELSE [status |-> "ok", tracks |-> LinkTracks(hrs)]
    /\ gpc' = "responded"
    /\ UNCHANGED <<net, order>>
    /\ UNCHANGED <<linkVars, dedupVars, proxVars, segVars, extractVars>>

GetNext ==
    \/ \E idx \in 0..(GetHours - 1) : FetchTimeout(idx)
    \/ \E idx \in 0..(GetHours - 1) : FetchHttpError(idx)
    \/ \E idx \in 0..(GetHours - 1), text \in GetTexts : FetchBody(idx, text)
    \/ GetRespond

SpecGet == GetInit /\ [][GetNext]_vars

\* the fetch of hour idx gave nothing usable: timeout, non-OK status or a
\* body no stage parses
FetchFailed(idx) ==
    \/ net[idx + 1].k \in {"timeout", "http"}
    \/ net[idx + 1].k = "body" /\ net[idx + 1].text.k = "garbage"

\* the payload of hour idx is an array of [lat, lon] rows of finite numbers
RowsPayload(idx) ==
    /\ net[idx + 1].k = "body"
    /\ net[idx + 1].text.k = "json"
    /\ net[idx + 1].text.value.k = "top"
    /\ \A e \in {net[idx + 1].text.value.elems[j] :
                    j \in 1..Len(net[idx + 1].text.value.elems)} :
           e.k = "arr" /\ Len(e.items) = 2 /\ IsFinite(e.items[1]) /\ IsFinite(e.items[2])

\* C6: whatever subset of the fetches fails and in whatever order the tasks
\* settle, GET answers; a failed hour contributes an empty list, every
\* array-of-rows payload contributes its rows under its own hour index (the
\* timestamp of that hour), the tracks are linked from these lists, and
\* with every fetch failed the track set is empty.
C6_FailuresStayLocal ==
    gpc = "responded" =>
        /\ response.status = "ok"
        /\ \A idx \in 0..(GetHours - 1) :
               /\ FetchFailed(idx) => gHourly[idx + 1] = <<>>
               /\ RowsPayload(idx) =>
                      LET rows == net[idx + 1].text.value.elems
                      IN  /\ Len(gHourly[idx + 1]) = Len(rows)
                          /\ \A j \in 1..Len(rows) :
                                 gHourly[idx + 1][j] =
                                     [ts |-> Fin(NowTs - idx * 3600),
                                      lat |-> rows[j].items[1],
                                      lon |-> rows[j].items[2]]
        /\ response.tracks = LinkTracks(gHourly)
        /\ (\A idx \in 0..(GetHours - 1) : FetchFailed(idx)) => response.tracks = <<>>

\* GET answered a track although the newest hour timed out, and the tasks
\* settled newest hour last
C6_Witness ==
    /\ gpc = "responded"
    /\ net[1].k = "timeout"
    /\ order[GetHours] = 0
    /\ order[1] = GetHours - 1
    /\ RowsPayload(1)
    /\ RowsPayload(2)
    /\ Len(response.tracks) = 1

\* GET answered an empty track set with every fetch failed, one of each kind
C6_AllFailedWitness ==
    /\ gpc = "responded"
    /\ \A idx \in 0..(GetHours - 1) : FetchFailed(idx)
    /\ \E idx \in 0..(GetHours - 1) : net[idx + 1].k = "timeout"
    /\ \E idx \in 0..(GetHours - 1) : net[idx + 1].k = "http"
    /\ \E idx \in 0..(GetHours - 1) : net[idx + 1].k = "body"
    /\ response = [status |-> "ok", tracks |-> <<>>]

(***************************************************************************)
(* part_001: the insights route GET (:63-97).  getJSON gives the parsed    *)
(* body or null ([ok |-> FALSE]) when the fetch fails or answers non-OK.   *)
(***************************************************************************)
PROX_KM == 100

\* tracks in the balloons body, points per track, entries of the fires body
MaxProxTracks == 2
MaxProxPts == 2
MaxFires == 2

\* the value undefined
Undefined == [k |-> "undef", v |-> 0]

\* Math.round(minKm * 10) / 10 on a distance in metres: the nearest tenth of
\* a kilometre, halves upwards; Infinity stays Infinity
RoundTenthKm(x) == IF IsFinite(x) THEN Fin(((x.v + 50) \div 100) * 100) ELSE x

\* ProxPair with the near count advanced only by a pair that improves the
\* minimum
ProxPairCountsImproving(a, p, f) ==
    LET km == HaversineKm(p, f)
    IN  IF JsLt(km, a.minKm)
        THEN [minKm |-> km, minWhen |-> p.ts,
              nearCount |-> IF JsLe(km, Fin(PROX_KM * 1000))
                            THEN a.nearCount + 1 ELSE a.nearCount]
        ELSE a

\* one pass of the inner loop body (:84-89) on a = [minKm, minWhen, nearCount]
ProxPair(a, p, f) ==
    LET km == HaversineKm(p, f)
        b == IF JsLt(km, a.minKm) THEN [a EXCEPT !.minKm = km, !.minWhen = p.ts] ELSE a
    IN  IF JsLe(km, Fin(PROX_KM * 1000)) THEN [b EXCEPT !.nearCount = @ + 1] ELSE b

\* the loops of :82-91 after n of the Len(points) * Len(firePts) pairs,
\* points outermost
RECURSIVE ProxLoop(_, _, _)
ProxLoop(points, firePts, n) ==
    IF n = 0 THEN [minKm |-> PosInf, minWhen |-> Undefined, nearCount |-> 0]
    ELSE ProxPair(ProxLoop(points, firePts, n - 1),
                  points[((n - 1) \div Len(firePts)) + 1],
                  firePts[((n - 1) % Len(firePts)) + 1])

\* the callback of tracks.map (:78-93)
ProxStat(t, firePts) ==
    LET a == ProxLoop(t.points, firePts, Len(t.points) * Len(firePts))
    IN  [id |-> t.id, closest_km |-> RoundTenthKm(a.minKm),
         near_count |-> a.nearCount, closest_ts |-> a.minWhen]

\* the comparator (a, b) => a.closest_km - b.closest_km as sort reads it
KmCompare(a, b) ==
    LET d == JsSub(a.closest_km, b.closest_km)
    IN  IF d.k = "inf" THEN 1
        ELSE IF d.k = "ninf" THEN -1
        ELSE IF d.k = "nan" THEN 0
        ELSE IF d.v > 0 THEN 1 ELSE IF d.v < 0 THEN -1 ELSE 0

RECURSIVE InsertByKm(_, _)
InsertByKm(s, x) ==
    IF Len(s) = 0 THEN <<x>>
    ELSE IF KmCompare(s[Len(s)], x) > 0
         THEN Append(InsertByKm(SubSeq(s, 1, Len(s) - 1), x), s[Len(s)])
         ELSE Append(s, x)

\* .sort((a, b) => a.closest_km - b.closest_km) (:94), a stable sort
RECURSIVE SortByKm(_)
SortByKm(s) ==
    IF Len(s) = 0 THEN <<>>
    ELSE InsertByKm(SortByKm(SubSeq(s, 1, Len(s) - 1)), s[Len(s)])

\* a number or undefined written by JSON.stringify (NextResponse.json, :96)
\* and read back by the caller's r.json(): a non-finite number is written as
\* null, a key holding undefined is left out
JsonRoundTrip(x) ==
    IF x.k \in {"fin", "undef", "null"} THEN x ELSE Null

\* one stat as the caller reads it
ReceivedStat(st) ==
    [id |-> st.id, closest_km |-> JsonRoundTrip(st.closest_km),
     near_count |-> st.near_count, closest_ts |-> JsonRoundTrip(st.closest_ts)]

\* point lists of a track: k-th point at hour k - 1, on the equator at 0 or 1
\* degree
ProxPointLists ==
    UNION {{[j \in 1..n |-> [ts |-> Fin(NowTs - (n - j) * 3600), lat |-> Fin(0),
                             lon |-> Fin(lons[j])]] :
               lons \in [1..n -> {0, 1000000}]} : n \in 0..MaxProxPts}

\* the bodies /api/balloons can answer: tracks T1, T2, ...
ProxTrackLists ==
    UNION {{[t \in 1..n |-> [id |-> t, points |-> pl[t]]] :
               pl \in [1..n -> ProxPointLists]} : n \in 0..MaxProxTracks}

\* fire longitudes on the equator: 0, 0.8996 degree (100.03 km from 0) and
\* 5 degrees (556 km)
FireLons == {0, 899600, 5000000}

ProxFireLists ==
    UNION {{[j \in 1..n |-> [lat |-> Fin(0), lon |-> Fin(lons[j])]] :
               lons \in [1..n -> FireLons]} : n \in 0..MaxFires}

\* :66-71 both internal fetches have settled
ProxInit ==
    /\ balloons \in {[ok |-> FALSE, tracks |-> <<>>]}
                    \cup {[ok |-> TRUE, tracks |-> tl] : tl \in ProxTrackLists}
    /\ fires \in {[ok |-> FALSE, fires |-> <<>>]}
                 \cup {[ok |-> TRUE, fires |-> fl] : fl \in ProxFireLists}
    /\ stats = <<>>
    /\ received = <<>>
    /\ ipc = "fetched"
    /\ LinkIdle
    /\ DedupIdle
    /\ GetIdle
    /\ SegIdle
    /\ ExtractIdle

\* balloons?.tracks ?? [] (:74)
ProxTracks == IF balloons.ok THEN balloons.tracks ELSE <<>>

\* fires?.fires ?? [] (:75)
FirePts == IF fires.ok THEN fires.fires ELSE <<>>

\* :73-94 the stats are computed and sorted
ProxCompute ==
    /\ ipc = "fetched"
    /\ stats' = SortByKm([t \in 1..Len(ProxTracks) |-> ProxStat(ProxTracks[t], FirePts)])
    /\ ipc' = "computed"
    /\ UNCHANGED <<balloons, fires, received>>
    /\ UNCHANGED <<linkVars, dedupVars, getVars, segVars, extractVars>>

\* :96 the response is written, and read by the caller
ProxRespond ==
    /\ ipc = "computed"
    /\ received' = [j \in 1..Len(stats) |-> ReceivedStat(stats[j])]
    /\ ipc' = "responded"
    /\ UNCHANGED <<balloons, fires, stats>>
    /\ UNCHANGED <<linkVars, dedupVars, getVars, segVars, extractVars>>

ProxNext == ProxCompute \/ ProxRespond

SpecProx == ProxInit /\ [][ProxNext]_vars

\* the distances of all (point, event) pairs of track t, in metres
PairMetres(t) ==
    {<<p, f, Metres(t.points[p], FirePts[f])>> :
        p \in 1..Len(t.points), f \in 1..Len(FirePts)}

MinMetres(t) ==
    CHOOSE m \in {x[3] : x \in PairMetres(t)} : \A x \in PairMetres(t) : m <= x[3]

NearPairs(t) == Cardinality({x \in PairMetres(t) : x[3] <= PROX_KM * 1000})

StatOf(s, id) == s[CHOOSE j \in 1..Len(s) : s[j].id = id]

\* C7 (as claimed): with an empty event list, or for a track without points,
\* the stat is closestKm = +Infinity, nearCount = 0, closestTs undefined, and
\* the caller receives it so.
C7_SentinelReachesCaller ==
    ipc = "responded" =>
        \A t \in 1..Len(ProxTracks) :
            (Len(FirePts) = 0 \/ Len(ProxTracks[t].points) = 0) =>
                LET st == StatOf(received, ProxTracks[t].id)
                IN  /\ st.closest_km = PosInf
                    /\ st.near_count = 0
                    /\ st.closest_ts = Undefined

\* what holds of the route: the sentinel is computed, and the caller reads
\* closest_km as null
C7_SentinelComputedThenNull ==
    ipc = "responded" =>
        \A t \in 1..Len(ProxTracks) :
            (Len(FirePts) = 0 \/ Len(ProxTracks[t].points) = 0) =>
                LET st == StatOf(stats, ProxTracks[t].id)
                    rc == StatOf(received, ProxTracks[t].id)
                IN  /\ st.closest_km = PosInf
                    /\ st.near_count = 0
                    /\ st.closest_ts = Undefined
                    /\ rc.closest_km = Null
                    /\ rc.near_count = 0
                    /\ rc.closest_ts = Undefined

\* tracks with points and a non-empty event list
Scored == {t \in 1..Len(ProxTracks) : Len(ProxTracks[t].points) >= 1 /\ Len(FirePts) >= 1}

\* C8 (as claimed): closestKm is the minimum distance over all pairs,
\* closestTs the ts of a point achieving it, nearCount the number of pairs
\* within the threshold, and nearCount >= 1 exactly when closestKm <= threshold.
C8_ClosestIsExactMinimum ==
    ipc \in {"computed", "responded"} =>
        \A t \in Scored :
            LET tr == ProxTracks[t]
                st == StatOf(stats, tr.id)
            IN  /\ st.closest_km = Fin(MinMetres(tr))
                /\ \E x \in PairMetres(tr) :
                       x[3] = MinMetres(tr) /\ st.closest_ts = tr.points[x[1]].ts
                /\ st.near_count = NearPairs(tr)
                /\ (st.near_count >= 1) <=> (st.closest_km.v <= PROX_KM * 1000)

\* C8 (amended): closestKm is the minimum distance over all pairs rounded to
\* a tenth of a kilometre, closestTs the ts of a point achieving the
\* minimum, nearCount the number of pairs within the threshold; nearCount >= 1
\* exactly when the minimum itself is within the threshold, and then
\* closestKm <= threshold.
C8_ClosestIsRoundedMinimum ==
    ipc \in {"computed", "responded"} =>
        \A t \in Scored :
            LET tr == ProxTracks[t]
                st == StatOf(stats, tr.id)
                m == MinMetres(tr)
            IN  /\ IsFinite(st.closest_km)
                /\ st.closest_km.v % 100 = 0
                /\ 2 * Abs(st.closest_km.v - m) <= 100
                /\ \E x \in PairMetres(tr) :
                       x[3] = m /\ st.closest_ts = tr.points[x[1]].ts
                /\ st.near_count = NearPairs(tr)
                /\ (st.near_count >= 1) <=> (m <= PROX_KM * 1000)
                /\ (st.near_count >= 1) => (st.closest_km.v <= PROX_KM * 1000)

\* a track scored against a duplicated event: both pairs of each point count,
\* and a second track whose minimum lies a few metres over the threshold
C8_Witness ==
    /\ ipc = "responded"
    /\ Len(ProxTracks) = 2
    /\ Len(FirePts) = 2
    /\ FirePts[1] = FirePts[2]
    /\ \E j \in 1..2 : stats[j].near_count = 2 * MaxProxPts
    /\ \E j \in 1..2 : stats[j].near_count >= 1 /\ stats[j].near_count < 2 * MaxProxPts

(***************************************************************************)
(* part_002: splitByDatelineAndHops (:50-78), called by the page with a    *)
(* hop cap of 800 km (:101).  Its haversineKm (:35-44) is the formula of   *)
(* geo.ts.  A segment entry [lat, lon] is the pair <<lat, lon>>.           *)
(***************************************************************************)
PageMaxHopKm == 800

\* points handed to splitByDatelineAndHops
MaxSegPts == 4

\* crossesDateline looking eastwards only (Math.abs left out)
CrossesDatelineNoAbs(a, b) == b.lon.v - a.lon.v > 180 * MicroPerDegree

\* Math.abs(b.lon - a.lon) > 180 (:65)
CrossesDateline(a, b) == Abs(b.lon.v - a.lon.v) > 180 * MicroPerDegree

\* hopKm > maxHopKm (:66-67)
BigHop(a, b, maxHopKm) == JsGt(HaversineKm(a, b), Fin(maxHopKm * 1000))

\* pts.filter(p => p.ts >= cutoffTs) (:55)
RECURSIVE FilterSince(_, _)
FilterSince(pts, cutoffTs) ==
    IF Len(pts) = 0 THEN <<>>
    ELSE LET front == FilterSince(SubSeq(pts, 1, Len(pts) - 1), cutoffTs)
             p == pts[Len(pts)]
         IN  IF JsLe(Fin(cutoffTs), p.ts) THEN Append(front, p) ELSE front

Coord(p) == <<p.lat, p.lon>>

\* [segs, cur] after the loop of :61-75 has handled filtered[2..n]
RECURSIVE SplitLoop(_, _, _)
SplitLoop(filtered, maxHopKm, n) ==
    IF n = 1 THEN [segs |-> <<>>, cur |-> <<Coord(filtered[1])>>]
    ELSE LET prev == SplitLoop(filtered, maxHopKm, n - 1)
             a == filtered[n - 1]
             b == filtered[n]
         IN  IF CrossesDateline(a, b) \/ BigHop(a, b, maxHopKm)
             THEN [segs |-> IF Len(prev.cur) >= 2 THEN Append(prev.segs, prev.cur)
                            ELSE prev.segs,
                   cur |-> <<Coord(b)>>]
             ELSE [prev EXCEPT !.cur = Append(@, Coord(b))]

SplitByDatelineAndHops(pts, cutoffTs, maxHopKm) ==
    LET filtered == FilterSince(pts, cutoffTs)
    IN  IF Len(filtered) < 2 THEN <<>>
        ELSE LET r == SplitLoop(filtered, maxHopKm, Len(filtered))
             IN  IF Len(r.cur) >= 2 THEN Append(r.segs, r.cur) ELSE r.segs

\* longitudes on the equator: 170, 178, 179 and -179 degrees
SegLons == {170000000, 178000000, 179000000, -179000000}

\* a track's points, one per hour, the last one at NowTs
SegPointLists ==
    UNION {{[j \in 1..n |-> [ts |-> Fin(NowTs - (n - j) * 3600), lat |-> Fin(0),
                             lon |-> Fin(lons[j])]] :
               lons \in [1..n -> SegLons]} : n \in 0..MaxSegPts}

\* the slider's cutoffs (:89-92): everything, or the last two hours
SegCutoffs == {NowTs - 24 * 3600, NowTs - 3600}

SegInit ==
    /\ sPts \in SegPointLists
    /\ sCutoff \in SegCutoffs
    /\ sSegs = <<>>
    /\ spc = "called"
    /\ LinkIdle
    /\ DedupIdle
    /\ GetIdle
    /\ ProxIdle
    /\ ExtractIdle

SegSplit ==
    /\ spc = "called"
    /\ sSegs' = SplitByDatelineAndHops(sPts, sCutoff, PageMaxHopKm)
    /\ spc' = "done"
    /\ UNCHANGED <<sPts, sCutoff>>
    /\ UNCHANGED <<linkVars, dedupVars, getVars, proxVars, extractVars>>

SegNext == SegSplit

SpecSeg == SegInit /\ [][SegNext]_vars

\* points j and j + 1 are at longitude 179 and -179
CrossingAt(j) ==
    /\ sPts[j].lon = Fin(179000000)
    /\ sPts[j + 1].lon = Fin(-179000000)

\* every point is at or after the cutoff, the only break is one 179 -> -179
\* crossing at j: every other consecutive pair is within 180 degrees of
\* longitude and within the hop cap
OneCrossing(j) ==
    /\ j \in 1..(Len(sPts) - 1)
    /\ \A x \in 1..Len(sPts) : sPts[x].ts.v >= sCutoff
    /\ CrossingAt(j)
    /\ \A x \in 1..(Len(sPts) - 1) :
           x # j => /\ Abs(sPts[x + 1].lon.v - sPts[x].lon.v) <= 180 * MicroPerDegree
                    /\ Metres(sPts[x], sPts[x + 1]) <= PageMaxHopKm * 1000

CoordsOf(a, b) == [x \in 1..(b - a + 1) |-> <<sPts[a + x - 1].lat, sPts[a + x - 1].lon>>]

\* C9 (as claimed): a track with a 179 -> -179 crossing between consecutive
\* points comes out as two segments, the points before the crossing and the
\* points after it.
C9_CrossingGivesTwoSegments ==
    spc = "done" =>
        \A j \in 1..(Len(sPts) - 1) :
            OneCrossing(j) =>
                /\ Len(sSegs) = 2
                /\ sSegs[1] = CoordsOf(1, j)
                /\ sSegs[2] = CoordsOf(j + 1, Len(sPts))

\* C9 (amended): no segment holds two consecutive entries more than 180
\* degrees of longitude apart, so none holds both points of the crossing
\* pair; with one crossing as the only break, the points before it form a
\* segment if there are at least 2 of them, the points after it form the
\* next if there are at least 2 of them, and a side of one point gives no
\* segment.
C9_CrossingSplitsAtBoundary ==
    spc = "done" =>
        /\ \A s \in 1..Len(sSegs) :
               /\ Len(sSegs[s]) >= 2
               /\ \A x \in 1..(Len(sSegs[s]) - 1) :
                      Abs(sSegs[s][x + 1][2].v - sSegs[s][x][2].v) <= 180 * MicroPerDegree
        /\ \A j \in 1..(Len(sPts) - 1) :
               OneCrossing(j) =>
                   sSegs = (IF j >= 2 THEN <<CoordsOf(1, j)>> ELSE <<>>)
                           \o (IF Len(sPts) - j >= 2
                               THEN <<CoordsOf(j + 1, Len(sPts))>> ELSE <<>>)

\* a four-point track crossing in the middle came out as two segments
C9_Witness ==
    /\ spc = "done"
    /\ Len(sPts) = 4
    /\ OneCrossing(2)
    /\ Len(sSegs) = 2

\* a three-point track crossing after its first point came out as one
\* segment
C9_OneSideWitness ==
    /\ spc = "done"
    /\ Len(sPts) = 3
    /\ OneCrossing(1)
    /\ Len(sSegs) = 1

(***************************************************************************)
(* Properties of dedupeAndSort (SpecDedup).                                *)
(***************************************************************************)
\* a finite coordinate rounded to 5 decimals, as a number (in units of 1e-5
\* degree; -0 and 0 are one number)
Round5(x) == IF x.v < 0 THEN -((Abs(x.v) + 5) \div 10) ELSE (x.v + 5) \div 10

SameRoundedPoint(p, q) ==
    /\ p.id = q.id
    /\ p.ts = q.ts
    /\ IsFinite(p.lat) /\ IsFinite(q.lat) /\ Round5(p.lat) = Round5(q.lat)
    /\ IsFinite(p.lon) /\ IsFinite(q.lon) /\ Round5(p.lon) = Round5(q.lon)

\* C10 (as claimed): dedupeAndSort applied to its own output changes
\* nothing, and points sharing id, ts and lat/lon rounded to 5 decimals
\* collapse to a single point of the output.
C10_IdempotentAndCollapsing ==
    /\ dpc = "twice" => dTwice = dOnce
    /\ dpc \in {"once", "twice"} =>
           \A a \in 1..Len(dOnce), b \in 1..Len(dOnce) :
               SameRoundedPoint(dOnce[a], dOnce[b]) => a = b

\* the part of C10 the code keeps: idempotence, and no two points of the
\* output share id, ts and the toFixed(5) texts of lat and lon
C10_IdempotentAndKeyUnique ==
    /\ dpc = "twice" => dTwice = dOnce
    /\ dpc \in {"once", "twice"} =>
           \A a \in 1..Len(dOnce), b \in 1..Len(dOnce) :
               DedupeKey(dOnce[a]) = DedupeKey(dOnce[b]) => a = b

(***************************************************************************)
(* extractHourPoints as GET calls it (route.ts:174-180): one fulfilled     *)
(* hour whose payload is a top-level array of records.                     *)
(***************************************************************************)
MaxRecords == 3

\* the elements a payload is made of: rows and objects that are valid, that
\* miss a coordinate or hold a non-finite number (JSON.parse reads 1e999 as
\* Infinity), null and a number
ExtractElems ==
    {Row(0, 0), Row(0, 1500000),
     ArrEl(<<Fin(0)>>), ArrEl(<<Fin(0), PosInf>>), ArrEl(<<Null, Fin(0)>>),
     ObjEl(Fin(0), Fin(0), Null), ObjEl(Fin(0), Fin(1500000), Null),
     ObjEl(Fin(0), Null, Null), ObjEl(PosInf, Fin(0), Null),
     NullEl, NumEl}

ExtractPayloads == UNION {{TopArray(e) : e \in [1..n -> ExtractElems]} : n \in 1..MaxRecords}

ExtractInit ==
    /\ ePayload \in ExtractPayloads
    /\ eIdx \in 0..1
    /\ eOut = <<>>
    /\ epc = "ready"
    /\ LinkIdle
    /\ DedupIdle
    /\ GetIdle
    /\ ProxIdle
    /\ SegIdle

\* the forEach callback (:174-180) for a fulfilled, truthy r.value
ExtractCollect ==
    /\ epc = "ready"
    /\ eOut' = CollectHour([status |-> "fulfilled", value |-> ePayload], eIdx).pts
    /\ epc' = "done"
    /\ UNCHANGED <<ePayload, eIdx>>
    /\ UNCHANGED <<linkVars, dedupVars, getVars, proxVars, segVars>>

ExtractNext == ExtractCollect

SpecExtract == ExtractInit /\ [][ExtractNext]_vars

\* a row [lat, lon] of two finite numbers
ValidRow(e) ==
    e.k = "arr" /\ Len(e.items) >= 2 /\ IsFinite(e.items[1]) /\ IsFinite(e.items[2])

\* an object with finite lat and lon
ValidObject(e) == e.k = "obj" /\ IsFinite(e.lat) /\ IsFinite(e.lon)

ValidRecord(e) == ValidRow(e) \/ ValidObject(e)

\* the coordinates a valid record carries
RecordCoords(e) == IF e.k = "arr" THEN <<e.items[1], e.items[2]>> ELSE <<e.lat, e.lon>>

\* the records of the payload are of one format: rows or objects, not both
OneFormat(payload) ==
    ~(/\ \E j \in 1..Len(payload.elems) : payload.elems[j].k = "arr"
      /\ \E j \in 1..Len(payload.elems) : payload.elems[j].k = "obj")

\* every valid record of the payload has its observation in out, stamped
\* with the hour of idx, as many times as the record occurs
SiblingsKept(payload, idx, out) ==
    \A j \in 1..Len(payload.elems) :
        ValidRecord(payload.elems[j]) =>
            LET c == RecordCoords(payload.elems[j])
                same == {x \in 1..Len(payload.elems) :
                            ValidRecord(payload.elems[x])
                            /\ RecordCoords(payload.elems[x]) = c}
                got == {x \in 1..Len(out) :
                            /\ <<out[x].lat, out[x].lon>> = c
                            /\ out[x].ts = Fin(ToEpochSecondsFromHourIdx(idx))}
            IN  Cardinality(got) >= Cardinality(same)

\* C11 (as claimed): when a payload of rows or of objects holds invalid
\* records (null, a number, a missing coordinate, a non-finite number) at
\* any position, every valid sibling record still yields its observation
\* for that hour.
C11_ValidSiblingsKept ==
    (epc = "done" /\ OneFormat(ePayload)) => SiblingsKept(ePayload, eIdx, eOut)

\* what the code does keep: the valid siblings survive when no element of
\* the payload is null and the first element is a record of the payload's
\* format (a payload of objects may also start with a number)
C11_KeptWithoutNullAndLeadingScalar ==
    (/\ epc = "done"
     /\ OneFormat(ePayload)
     /\ \A j \in 1..Len(ePayload.elems) : ePayload.elems[j].k # "null"
     /\ (\E j \in 1..Len(ePayload.elems) : ePayload.elems[j].k = "arr")
            => ePayload.elems[1].k = "arr")
        => SiblingsKept(ePayload, eIdx, eOut)

\* a payload of objects with a null element after a valid one left the hour
\* empty
C11_NullElementWitness ==
    /\ epc = "done"
    /\ Len(ePayload.elems) = 2
    /\ ValidObject(ePayload.elems[1])
    /\ ePayload.elems[2].k = "null"
    /\ eOut = <<>>

\* a payload of rows that starts with a number lost its valid row
C11_LeadingNumberWitness ==
    /\ epc = "done"
    /\ Len(ePayload.elems) = 2
    /\ ePayload.elems[1].k = "num"
    /\ ValidRow(ePayload.elems[2])
    /\ eOut = <<>>

\* invalid records in the middle of the payload were dropped alone
C11_DroppedAloneWitness ==
    /\ epc = "done"
    /\ Len(ePayload.elems) = 3
    /\ ValidObject(ePayload.elems[1])
    /\ ePayload.elems[2].k = "obj" /\ ~ValidObject(ePayload.elems[2])
    /\ ValidObject(ePayload.elems[3])
    /\ Len(eOut) = 2

(***************************************************************************)
(* The matching of one hour in linkTracks (route.ts:109-154).              *)
(***************************************************************************)
\* the tracks observation p may take: not claimed in this hour, both gates
\* passed
MatchCandidates(p) ==
    {t \in 1..Len(tracks) : tracks[t].id \notin usedTrack /\ PassesGates(tracks[t], p)}

\* the candidate at minimum distance, the earliest-created on a tie
NearestCandidate(p) ==
    CHOOSE t \in MatchCandidates(p) :
        \A u \in MatchCandidates(p) :
            \/ Metres(LastPoint(tracks[t]), p) < Metres(LastPoint(tracks[u]), p)
            \/ /\ Metres(LastPoint(tracks[t]), p) = Metres(LastPoint(tracks[u]), p)
               /\ t <= u

\* the step that handles observation i of hour h
GreedyMatchStep ==
    LET p == hourly[h + 1][i + 1]
    IN  /\ Len(tracks') = Len(tracks)
        /\ h' = h
        /\ IF MatchCandidates(p) = {}
           THEN /\ tracks' = tracks
                /\ usedTrack' = usedTrack
                /\ usedPoint' = usedPoint
           ELSE LET t == NearestCandidate(p)
                IN  /\ tracks' = [tracks EXCEPT ![t].points =
                                      Append(@, WithId(p, tracks[t].id))]
                    /\ usedTrack' = usedTrack \cup {tracks[t].id}
                    /\ usedPoint' = usedPoint \cup {i}

\* the step that ends hour h: the tracks that exist are left as they are
\* and every unmatched observation starts a track of one point
LeftoverStep ==
    /\ h' = h - 1
    /\ lpc' = "hour"
    /\ Len(tracks') = Len(tracks) + Len(hourly[h + 1]) - Cardinality(usedPoint)
    /\ \A t \in 1..Len(tracks) : tracks'[t] = tracks[t]
    /\ \A t \in (Len(tracks) + 1)..Len(tracks') : Len(tracks'[t].points) = 1

\* while hour h is matched, the claimed tracks are those that took one of
\* the observations handled so far
ClaimedOnce ==
    lpc = "match" =>
        /\ usedPoint \subseteq 0..(i - 1)
        /\ Cardinality(usedTrack) = Cardinality(usedPoint)
        /\ \A t \in 1..Len(tracks) :
               tracks[t].id \in usedTrack =>
                   /\ Len(tracks[t].points) >= 2
                   /\ \E j \in usedPoint :
                          StripId(LastPoint(tracks[t])) = hourly[h + 1][j + 1]

C12_TieWitness ==
    /\ lpc = "match"
    /\ i = 1
    /\ Len(tracks) = 2
    /\ usedTrack = {tracks[1].id}
    /\ Len(tracks[1].points) = 2
    /\ Len(tracks[2].points) = 1
    /\ PassesGates(tracks[2], hourly[h + 1][1])
    /\ Metres(tracks[1].points[1], hourly[h + 1][1])
           = Metres(LastPoint(tracks[2]), hourly[h + 1][1])

\* an observation found no candidate and started a track after the hour's
\* matching
C12_LeftoverWitness ==
    /\ lpc = "hour"
    /\ Len(tracks) = 3
    /\ Len(tracks[1].points) = 2
    /\ Len(tracks[2].points) = 1
    /\ Len(tracks[3].points) = 1
    /\ tracks[3].points[1].ts # tracks[2].points[1].ts

====
